---- MODULE Spec2Model ----
(***************************************************************************)
(* Model of the clipboard history engine of banzai (src-tauri/src/lib.rs): *)
(* the history file, save_entry / load_history / clear_history, the        *)
(* clipboard monitor thread and the commands and tray handlers that run on *)
(* the main thread.                                                        *)
(*                                                                         *)
(* Two threads share the history file and the OS clipboard: the monitor    *)
(* thread spawned by start_clipboard_monitor, and the main thread, on      *)
(* which the (non-async) commands and the tray menu handlers run one at a  *)
(* time.  The code takes no lock, so every file system call of save_entry  *)
(* is a step of its own that main-thread operations may interleave with.   *)
(*                                                                         *)
(* Timestamps are readings of a clock that ticks at every reading.         *)
(***************************************************************************)
EXTENDS Naturals, Sequences, FiniteSets, TLC

\* lib.rs:25
MAX_HISTORY_ENTRIES == 100

\* Bounds of the model.
MaxRecords == 2     \* entries the monitor creates in one run
MaxFaults == 1      \* I/O and clipboard failures injected in one run

EmptyText == ""
Texts == {"", "a", "b"}        \* what the user or the UI may put on the clipboard
NoText == "<no text>"          \* the clipboard holds no text (get_text fails)
None == "<none>"               \* Option::None of a text
Absent == [exists |-> FALSE, lines |-> <<>>]   \* the history file does not exist
File(lines) == [exists |-> TRUE, lines |-> lines]

VARIABLES
    disk,          \* the history file: Absent, or File(its lines)
    linked,        \* save_entry's open handle still refers to the file at the path
    clipboard,     \* the OS clipboard: a text, or NoText
    running,       \* the AtomicBool passed to start_clipboard_monitor
    pc,            \* position of the monitor thread
    last_content,  \* the monitor's last_content: None or a text
    current,       \* the monitor's current (text read on this tick)
    entry,         \* the ClipboardEntry built on this tick
    history,       \* save_entry's local history vector
    wi,            \* save_entry's position in "for e in &history"
    clock,         \* next reading of Local::now()
    trayCount,     \* the count shown by the tray menu's status item
    events,        \* events emitted to the UI
    mret,          \* what the last command on the main thread returned: "ok", "err",
                   \* or "vec" for get_history, whose vector is get_history(disk)
    faults,        \* failures injected so far
    \* history variables, read by the properties only
    loaded,        \* the store save_entry loaded at its start
    clearedDuring, \* a clear removed the file while this save_entry was running
    saveResult,    \* result of the last save_entry: None, "ok", "err"
    prevRead,      \* text the previous tick's get_text returned, or None
    copyKnown,     \* the clipboard was last set by copy_to_clipboard with a stored content
    currentKnown,  \* copyKnown at the time current was read
    quietClear,    \* a clear succeeded with no save_entry in flight, none started since
    reread,        \* the last tick read the non-empty text the tick before it had read
    recorded,      \* content of the last entry save_entry returned Ok for, or None
    afterStop      \* records the monitor started while the running flag was false

vars == <<disk, linked, clipboard, running, pc, last_content, current, entry, history,
          wi, clock, trayCount, events, mret, faults, loaded, clearedDuring,
          saveResult, prevRead, copyKnown, currentKnown, quietClear, reread,
          recorded, afterStop>>

monitorVars == <<pc, last_content, current, entry, history, wi>>
ghostVars == <<loaded, clearedDuring, saveResult, prevRead, copyKnown, currentKnown,
               quietClear, reread, recorded, afterStop>>

----------------------------------------------------------------------------
(* ClipboardEntry and its one-line encoding *)

ClipboardEntry(t, c) == [timestamp |-> t, content |-> c]

\* serde_json::to_string(e): one JSON object, newlines in content escaped
Encode(e) == [k |-> "json", e |-> e]
\* a line of valid UTF-8 that is no ClipboardEntry object
NoEntry == ClipboardEntry(0, None)
Garbage == [k |-> "garbage", e |-> NoEntry]
\* a line that is not valid UTF-8: BufRead::lines yields Err for it
BadUtf8 == [k |-> "badutf8", e |-> NoEntry]

\* .lines() yields Ok for the line
LineOk(l) == l.k # "badutf8"
\* serde_json::from_str(&line).ok() is Some
Decodes(l) == l.k = "json"

Min(S) == CHOOSE x \in S : \A y \in S : x <= y

\* .map_while(Result::ok): the lines before the first one that reads as Err
MapWhileOk(lines) ==
    LET bad == {i \in 1..Len(lines) : ~LineOk(lines[i])}
    IN  IF bad = {} THEN lines ELSE SubSeq(lines, 1, Min(bad) - 1)

\* .filter_map(|line| serde_json::from_str(&line).ok())
FilterMapDecode(lines) ==
    LET ok == SelectSeq(lines, Decodes)
    IN  [i \in 1..Len(ok) |-> ok[i].e]

load_history(d) ==
    IF ~d.exists THEN <<>> ELSE FilterMapDecode(MapWhileOk(d.lines))

\* (faulty variant) the vector is returned as loaded
ReverseNot(s) == s

\* history.reverse()
Reverse(s) == [i \in 1..Len(s) |-> s[Len(s) + 1 - i]]

get_history(d) == Reverse(load_history(d))

\* (faulty variant) retain keeps every entry
RetainAll(h, c) == h

\* history.retain(|e| e.content != entry.content)
Retain(h, c) == LET keep(e) == e.content # c IN SelectSeq(h, keep)

\* (faulty variant) the new entry is put at the front
PushFront(h, e) == <<e>> \o h

\* history.push(ClipboardEntry { .. })
Push(h, e) == Append(h, e)

\* (faulty variant) no truncation
TruncateNever(h) == h

\* (faulty variant) truncation keeps the oldest entries
TruncateOldest(h) ==
    IF Len(h) > MAX_HISTORY_ENTRIES THEN SubSeq(h, 1, MAX_HISTORY_ENTRIES) ELSE h

\* if history.len() > MAX { history = history.split_off(history.len() - MAX) }
Truncate(h) ==
    IF Len(h) > MAX_HISTORY_ENTRIES
    THEN SubSeq(h, Len(h) - MAX_HISTORY_ENTRIES + 1, Len(h))
    ELSE h

\* the vector save_entry writes for a loaded store h and a new entry e
NewHistory(h, e) == Truncate(Push(Retain(h, e.content), e))

Contents(h) == {h[i].content : i \in 1..Len(h)}

----------------------------------------------------------------------------
(* Initial states: the application starts on a history file left by an       *)
(* earlier run (or none), run() builds the tray menu from it and starts the  *)
(* monitor.                                                                  *)

\* timestamps of the entries an earlier run left are below StartClock
StartClock == MAX_HISTORY_ENTRIES + 1

SmallFiles ==
    { Absent,
      File(<<Encode(ClipboardEntry(1, "a")), Encode(ClipboardEntry(2, "b"))>>),
      File(<<Encode(ClipboardEntry(1, "a")), Garbage, Encode(ClipboardEntry(2, "b"))>>),
      File(<<Encode(ClipboardEntry(1, "a")), BadUtf8, Encode(ClipboardEntry(2, "b"))>>) }

\* a store filled by an earlier run with n distinct texts, oldest first:
\* "a" is the oldest entry, "b" is not stored
FilledText(i) == IF i = 1 THEN "a" ELSE ToString(i)
FilledFile(n) == File([i \in 1..n |-> Encode(ClipboardEntry(i, FilledText(i)))])
FullFiles == {FilledFile(MAX_HISTORY_ENTRIES), FilledFile(MAX_HISTORY_ENTRIES - 1)}

InitWith(files, failed) ==
    /\ disk \in files
    /\ linked = FALSE
    /\ clipboard \in {NoText, "a"}
    /\ running = TRUE
    /\ pc = "start"
    /\ last_content = None
    /\ current = None
    /\ entry = NoEntry
    /\ history = <<>>
    /\ wi = 0
    /\ clock = StartClock
    /\ trayCount = Len(load_history(disk))
    /\ events = {}
    /\ mret = None
    /\ faults = failed
    /\ loaded = <<>>
    /\ clearedDuring = FALSE
    /\ saveResult = None
    /\ prevRead = None
    /\ copyKnown = FALSE
    /\ currentKnown = FALSE
    /\ quietClear = FALSE
    /\ reread = FALSE
    /\ recorded = None
    /\ afterStop = 0

Init == InitWith(SmallFiles, 0)
\* a filled store, on a system whose file and clipboard calls all succeed
InitFull == InitWith(FullFiles, MaxFaults)

----------------------------------------------------------------------------
(* The monitor thread: start_clipboard_monitor *)

SavePcs == {"save_load", "save_open", "save_write"}

CanFail == faults < MaxFaults
Fail == faults' = faults + 1

\* Clipboard::new() at the top of the thread; on Err the thread returns
MonitorStart ==
    /\ pc = "start"
    /\ \/ pc' = "idle" /\ UNCHANGED faults
       \/ CanFail /\ Fail /\ pc' = "exited"
    /\ UNCHANGED <<disk, linked, clipboard, running, last_content, current, entry,
                   history, wi, clock, trayCount, events, mret, ghostVars>>

\* (faulty variant) every read counts as new
is_newAlways(last, cur) == TRUE

\* "match &last_content { Some(last) => last != &current, None => true }"
is_new(last, cur) == IF last = None THEN TRUE ELSE last # cur

\* (faulty variant) the loop never looks at the flag
MonitorCheckIgnoresFlag ==
    /\ pc = "idle"
    /\ pc' = "read"
    /\ UNCHANGED <<disk, linked, clipboard, running, last_content, current, entry,
                   history, wi, clock, trayCount, events, mret, faults, ghostVars>>

\* line 197, "while running.load(Ordering::Relaxed)": after the sleep of the
\* cycle before, the loop goes on if the flag is set and ends if it is not
MonitorCheck ==
    /\ pc = "idle"
    /\ pc' = IF running THEN "read" ELSE "exited"
    /\ UNCHANGED <<disk, linked, clipboard, running, last_content, current, entry,
                   history, wi, clock, trayCount, events, mret, faults, ghostVars>>

\* (faulty variant) the empty text is recorded like any other
ShouldRecordEmpty(last, cur) == is_new(last, cur)

\* line 204: "if is_new && !current.is_empty()"
ShouldRecord(last, cur) == is_new(last, cur) /\ cur # EmptyText

\* one poll tick: get_text, the comparison, and the sleep when nothing is new
MonitorTick ==
    /\ pc = "read"
    /\ \/ \* get_text fails: nothing is done on this tick
          /\ \/ clipboard = NoText /\ UNCHANGED faults
             \/ clipboard # NoText /\ CanFail /\ Fail
          /\ pc' = "idle"
          /\ UNCHANGED <<current, entry, clock, prevRead, currentKnown, quietClear,
                         reread, afterStop>>
       \/ \* get_text returns the text
          /\ clipboard # NoText
          /\ UNCHANGED faults
          /\ current' = clipboard
          /\ prevRead' = clipboard
          /\ reread' = (prevRead = clipboard /\ clipboard # EmptyText)
          /\ currentKnown' = copyKnown
          /\ IF ShouldRecord(last_content, clipboard)
             THEN /\ clock < StartClock + MaxRecords
                  /\ entry' = ClipboardEntry(clock, clipboard)
                  /\ clock' = clock + 1
                  /\ pc' = "save_load"
                  /\ quietClear' = FALSE
                  /\ afterStop' = IF running THEN afterStop ELSE afterStop + 1
             ELSE pc' = "idle" /\ UNCHANGED <<entry, clock, quietClear, afterStop>>
    /\ UNCHANGED <<disk, linked, clipboard, running, last_content, history, wi,
                   trayCount, events, mret, loaded, clearedDuring, saveResult,
                   copyKnown, recorded>>

\* save_entry, lines 78-89: load, retain, push, split_off
SaveLoad ==
    /\ pc = "save_load"
    /\ history' = NewHistory(load_history(disk), entry)
    /\ loaded' = load_history(disk)
    /\ clearedDuring' = FALSE
    /\ pc' = "save_open"
    /\ UNCHANGED <<disk, linked, clipboard, running, last_content, current, entry, wi,
                   clock, trayCount, events, mret, faults, saveResult, prevRead,
                   copyKnown, currentKnown, quietClear, reread, recorded, afterStop>>

\* (faulty variant) an Err of save_entry ends the monitor thread
SaveFailedExits ==
    /\ CanFail /\ Fail
    /\ saveResult' = "err"
    /\ linked' = FALSE
    /\ last_content' = current
    /\ pc' = "exited"

\* save_entry returned Err: the monitor logs it, and line 224 still runs
SaveFailed ==
    /\ CanFail /\ Fail
    /\ saveResult' = "err"
    /\ linked' = FALSE
    /\ last_content' = current
    /\ pc' = "idle"

\* save_entry, lines 91-95: OpenOptions create + write + truncate
SaveOpen ==
    /\ pc = "save_open"
    /\ \/ /\ disk' = File(<<>>)
          /\ linked' = TRUE
          /\ wi' = 1
          /\ pc' = "save_write"
          /\ UNCHANGED <<faults, saveResult, last_content>>
       \/ SaveFailed /\ UNCHANGED <<disk, wi>>
    /\ UNCHANGED <<clipboard, running, current, entry, history, clock, trayCount,
                   events, mret, loaded, clearedDuring, prevRead, copyKnown,
                   currentKnown, quietClear, reread, recorded, afterStop>>

\* save_entry, lines 96-99: one writeln! of the loop; a handle whose file was
\* removed meanwhile writes to a file no path names any more
SaveWrite ==
    /\ pc = "save_write"
    /\ wi <= Len(history)
    /\ \/ /\ disk' = IF linked THEN File(Append(disk.lines, Encode(history[wi]))) ELSE disk
          /\ wi' = wi + 1
          /\ UNCHANGED <<pc, linked, faults, saveResult, last_content>>
       \/ SaveFailed /\ UNCHANGED <<disk, wi>>
    /\ UNCHANGED <<clipboard, running, current, entry, history, clock, trayCount,
                   events, mret, loaded, clearedDuring, prevRead, copyKnown,
                   currentKnown, quietClear, reread, recorded, afterStop>>

\* save_entry, line 101: the loop is over, the file is closed, Ok(())
SaveReturn ==
    /\ pc = "save_write"
    /\ wi > Len(history)
    /\ saveResult' = "ok"
    /\ recorded' = entry.content
    /\ linked' = FALSE
    /\ pc' = "emit"
    /\ UNCHANGED <<disk, clipboard, running, last_content, current, entry, history, wi,
                   clock, trayCount, events, mret, faults, loaded, clearedDuring,
                   prevRead, copyKnown, currentKnown, quietClear, reread, afterStop>>

\* line 213: let _ = app_handle.emit("clipboard-changed", &entry)
MonitorEmit ==
    /\ pc = "emit"
    /\ \/ events' = events \cup {<<"clipboard-changed", entry>>} /\ UNCHANGED faults
       \/ CanFail /\ Fail /\ UNCHANGED events
    /\ pc' = "tray"
    /\ UNCHANGED <<disk, linked, clipboard, running, last_content, current, entry,
                   history, wi, clock, trayCount, mret, ghostVars>>

\* (faulty variant) a menu that cannot be built ends the monitor thread
MonitorTrayAborts ==
    /\ pc = "tray"
    /\ \/ /\ trayCount' = Len(load_history(disk))
          /\ last_content' = current
          /\ pc' = "idle"
          /\ UNCHANGED faults
       \/ /\ CanFail /\ Fail
          /\ pc' = "exited"
          /\ UNCHANGED <<trayCount, last_content>>
    /\ UNCHANGED <<disk, linked, clipboard, running, current, entry, history, wi,
                   clock, events, mret, ghostVars>>

\* lines 216-224: the tray menu is rebuilt from load_history(), then
\* last_content = Some(current)
MonitorTray ==
    /\ pc = "tray"
    /\ \/ trayCount' = Len(load_history(disk)) /\ UNCHANGED faults
       \/ CanFail /\ Fail /\ UNCHANGED trayCount
    /\ last_content' = current
    /\ pc' = "idle"
    /\ UNCHANGED <<disk, linked, clipboard, running, current, entry, history, wi,
                   clock, events, mret, ghostVars>>

----------------------------------------------------------------------------
(* The main thread: commands and tray menu handlers *)

\* #[tauri::command] get_history: a read of the file; the vector it returns is
\* get_history(disk) of the state it runs in
GetHistory ==
    /\ mret' = "vec"
    /\ UNCHANGED <<disk, linked, clipboard, running, monitorVars, clock, trayCount,
                   events, faults, ghostVars>>

\* #[tauri::command] copy_to_clipboard
CopyToClipboard(content) ==
    /\ \/ /\ clipboard' = content
          /\ copyKnown' = (content \in Contents(load_history(disk)))
          /\ mret' = "ok"
          /\ UNCHANGED faults
       \/ CanFail /\ Fail /\ mret' = "err" /\ UNCHANGED <<clipboard, copyKnown>>
    /\ UNCHANGED <<disk, linked, running, monitorVars, clock, trayCount, events,
                   loaded, clearedDuring, saveResult, prevRead, currentKnown,
                   quietClear, reread, recorded, afterStop>>

\* (faulty variant) clear empties the file instead of removing it
clear_historyEmpties(res) ==
    /\ res = "ok"
    /\ disk' = File(<<>>)
    /\ quietClear' = (pc \notin SavePcs)
    /\ UNCHANGED <<linked, clearedDuring, faults>>

\* clear_history: remove the file if it exists.  res is the io::Result.
\* (No other thread removes the file, so the exists() test and remove_file
\* are one step.)
clear_history(res) ==
    \/ /\ ~disk.exists
       /\ res = "ok"
       /\ quietClear' = (pc \notin SavePcs)
       /\ UNCHANGED <<disk, linked, clearedDuring, faults>>
    \/ /\ disk.exists
       /\ res = "ok"
       /\ disk' = Absent
       /\ linked' = FALSE
       /\ clearedDuring' = IF pc \in SavePcs THEN TRUE ELSE clearedDuring
       /\ quietClear' = (pc \notin SavePcs)
       /\ UNCHANGED faults
    \/ /\ disk.exists
       /\ res = "err"
       /\ CanFail /\ Fail
       /\ quietClear' = FALSE
       /\ UNCHANGED <<disk, linked, clearedDuring>>

\* #[tauri::command] clear_all_history
ClearAllHistory ==
    /\ \E res \in {"ok", "err"} : clear_history(res) /\ mret' = res
    /\ UNCHANGED <<clipboard, running, monitorVars, clock, trayCount, events,
                   loaded, saveResult, prevRead, copyKnown, currentKnown, reread,
                   recorded, afterStop>>

\* tray menu item "clear": the error is logged, the event is emitted and the
\* menu is rebuilt for an empty history
TrayClear ==
    /\ \E res \in {"ok", "err"} : clear_history(res)
    /\ events' = events \cup {<<"history-cleared", NoEntry>>}
    /\ trayCount' = 0
    /\ UNCHANGED <<clipboard, running, monitorVars, clock, mret,
                   loaded, saveResult, prevRead, copyKnown, currentKnown, reread,
                   recorded, afterStop>>

\* tray menu item "auto_launch": the menu is rebuilt from load_history()
TrayAutoLaunch ==
    /\ trayCount' = Len(load_history(disk))
    /\ UNCHANGED <<disk, linked, clipboard, running, monitorVars, clock, events,
                   mret, faults, ghostVars>>

----------------------------------------------------------------------------
(* The user, copying in other applications *)

UserCopy(c) ==
    /\ clipboard # c
    /\ clipboard' = c
    /\ copyKnown' = FALSE
    /\ UNCHANGED <<disk, linked, running, monitorVars, clock, trayCount, events,
                   mret, faults, loaded, clearedDuring, saveResult, prevRead,
                   currentKnown, quietClear, reread, recorded, afterStop>>

\* a holder of the running flag stores false.  lib.rs creates the flag and
\* hands it to start_clipboard_monitor, and nothing in it ever stores false:
\* this step is in NextStop only.
StopRequested ==
    /\ running
    /\ running' = FALSE
    /\ UNCHANGED <<disk, linked, clipboard, monitorVars, clock, trayCount, events,
                   mret, faults, ghostVars>>

----------------------------------------------------------------------------

Next ==
    \/ MonitorStart
    \/ MonitorCheck
    \/ MonitorTick
    \/ SaveLoad
    \/ SaveOpen
    \/ SaveWrite
    \/ SaveReturn
    \/ MonitorEmit
    \/ MonitorTray
    \/ GetHistory
    \/ \E c \in Texts : CopyToClipboard(c)
    \/ ClearAllHistory
    \/ TrayClear
    \/ TrayAutoLaunch
    \/ \E c \in Texts \cup {NoText} : UserCopy(c)

\* the monitor, the user and the clear command
NextFull ==
    \/ MonitorStart
    \/ MonitorCheck
    \/ MonitorTick
    \/ SaveLoad
    \/ SaveOpen
    \/ SaveWrite
    \/ SaveReturn
    \/ MonitorEmit
    \/ MonitorTray
    \/ ClearAllHistory
    \/ \E c \in Texts \cup {NoText} : UserCopy(c)

\* the monitor and the user, with a flag that may be cleared
NextStop ==
    \/ MonitorStart
    \/ MonitorCheck
    \/ MonitorTick
    \/ SaveLoad
    \/ SaveOpen
    \/ SaveWrite
    \/ SaveReturn
    \/ MonitorEmit
    \/ MonitorTray
    \/ StopRequested
    \/ \E c \in Texts \cup {NoText} : UserCopy(c)

Spec == Init /\ [][Next]_vars
SpecStop == Init /\ [][NextStop]_vars
SpecFull == InitFull /\ [][NextFull]_vars

----------------------------------------------------------------------------
(* Properties *)

\* the store as load_history and get_history read it in the current state
Store == load_history(disk)

NoDuplicates(h) == \A i, j \in 1..Len(h) : i # j => h[i].content # h[j].content

\* C1 (Uniqueness-by-content): started on an absent or duplicate-free history
\* file, the persisted store never holds two entries with the same content,
\* whatever the monitor, the commands and the tray handlers do.
C1_UniqueContent == NoDuplicates(Store)

\* a record of a content the store already held has been written in full
C1_Witness ==
    /\ pc = "emit"
    /\ saveResult = "ok"
    /\ entry.content \in Contents(loaded)
    /\ Store = history
    /\ Len(Store) = 2

\* C2 (Bounded size): the history file never holds more than
\* MAX_HISTORY_ENTRIES lines, and neither load_history nor get_history ever
\* returns more than MAX_HISTORY_ENTRIES entries.
C2_Bounded ==
    /\ Len(disk.lines) <= MAX_HISTORY_ENTRIES
    /\ Len(load_history(disk)) <= MAX_HISTORY_ENTRIES
    /\ Len(get_history(disk)) <= MAX_HISTORY_ENTRIES

\* a new content has been recorded into a store that was full
C2_Witness ==
    /\ pc = "emit"
    /\ saveResult = "ok"
    /\ Len(loaded) = MAX_HISTORY_ENTRIES
    /\ entry.content \notin Contents(loaded)
    /\ Len(Store) = MAX_HISTORY_ENTRIES
    /\ Store[Len(Store)] = entry

\* C3 (Serializable record/clear), as claimed: when a clear removed the file
\* while save_entry was running and save_entry then returned Ok, the store is
\* what one of the two serial orders leaves: empty, or the one new entry.
C3_Serializable ==
    (pc = "emit" /\ saveResult = "ok" /\ clearedDuring)
        => (Store = <<>> \/ Store = <<entry>>)

\* C4 (No partial write is observable), as claimed: while save_entry is
\* rewriting the file, what a concurrent load_history reads is the store as it
\* was before, the empty store, or the complete new store.
C4_NoPartialWrite ==
    (pc \in {"save_open", "save_write"})
        => (Store = loaded \/ Store = <<>> \/ Store = history)

\* C5 (copy_to_clipboard does not re-record), as claimed: the monitor never
\* sets out to record a text that copy_to_clipboard put on the clipboard and
\* that the store already holds.
C5_CopyNotRecorded ==
    ~(pc = "save_open" /\ currentKnown /\ entry.content \in Contents(loaded))

\* what a record of e leaves of a store old that held e.content at position p
Refreshed(old, p, e) == SubSeq(old, 1, p - 1) \o SubSeq(old, p + 1, Len(old)) \o <<e>>

\* C6 (Dedup-refresh): when save_entry returns Ok for an entry whose content the
\* loaded store already held, the file it wrote holds the loaded store without
\* the prior entry of that content, the others in their order, and the new
\* entry last.
C6_DedupRefresh ==
    [][(SaveReturn /\ linked /\ entry.content \in Contents(loaded))
         => \E p \in 1..Len(loaded) :
               /\ loaded[p].content = entry.content
               /\ load_history(disk') = Refreshed(loaded, p, entry)]_vars

\* the example of the spec: [a@1, b@2], then a@101, gives [b@2, a@101]
C6_Witness ==
    /\ pc = "emit"
    /\ saveResult = "ok"
    /\ loaded = <<ClipboardEntry(1, "a"), ClipboardEntry(2, "b")>>
    /\ entry = ClipboardEntry(StartClock, "a")
    /\ Store = <<ClipboardEntry(2, "b"), entry>>

\* C7 (Bound enforcement is suffix retention): when save_entry returns Ok for an
\* entry whose content the loaded store did not hold, the file it wrote holds
\* min(len + 1, MAX_HISTORY_ENTRIES) entries: the new entry last, before it the
\* newest entries of the loaded store in their order; only the oldest are gone.
C7_SuffixRetention ==
    [][(SaveReturn /\ linked /\ entry.content \notin Contents(loaded))
         => LET new == load_history(disk')
                n == IF Len(loaded) + 1 > MAX_HISTORY_ENTRIES
                     THEN MAX_HISTORY_ENTRIES ELSE Len(loaded) + 1
            IN  /\ Len(new) = n
                /\ new[n] = entry
                /\ \A i \in 1..(n - 1) : new[i] = loaded[Len(loaded) - (n - 1) + i]]_vars

\* the store held MAX_HISTORY_ENTRIES distinct texts, one more was recorded:
\* the oldest is gone, the second oldest is now the first
C7_Witness ==
    /\ pc = "emit"
    /\ saveResult = "ok"
    /\ Len(loaded) = MAX_HISTORY_ENTRIES
    /\ NoDuplicates(loaded)
    /\ entry.content \notin Contents(loaded)
    /\ Len(Store) = MAX_HISTORY_ENTRIES
    /\ Store[1] = loaded[2]
    /\ loaded[1].content \notin Contents(Store)

\* C8 (Corruption tolerance), as claimed: a file with exactly one line that is
\* no encoded entry loads as the entries of all its other lines, in file order.
C8_CorruptionTolerance ==
    (disk.exists /\ Cardinality({i \in 1..Len(disk.lines) : ~Decodes(disk.lines[i])}) = 1)
        => load_history(disk) = FilterMapDecode(disk.lines)

\* C9 (Idempotence of sampling): a tick on which the clipboard holds the
\* non-empty text the previous successful read returned starts no record and
\* changes neither the file nor last_content.
C9_SamplingIdempotent ==
    [][(MonitorTick /\ prevRead = clipboard /\ clipboard # EmptyText)
         => (pc' = "idle" /\ UNCHANGED <<disk, last_content, entry, clock>>)]_vars

\* a tick has read again the text that was recorded on an earlier tick
C9_Witness ==
    /\ reread
    /\ pc = "idle"
    /\ saveResult = "ok"
    /\ last_content = current
    /\ entry.content = current
    /\ current \in Contents(Store)

\* C10 (Clear-then-load): after a clear that returned Ok with no save_entry in
\* flight, and until the monitor starts its next record, the file does not
\* exist and load_history and get_history return the empty sequence, as on a
\* fresh install; a clear of an absent file returns Ok and leaves it absent.
C10_ClearThenLoad ==
    [][/\ quietClear' =>
            /\ ~disk'.exists
            /\ load_history(disk') = <<>>
            /\ get_history(disk') = <<>>
            /\ load_history(disk') = load_history(Absent)
       /\ (ClearAllHistory /\ ~disk.exists) => (mret' = "ok" /\ ~disk'.exists)]_vars

\* a store that a record had filled was cleared, with the monitor idle
C10_Witness ==
    /\ quietClear
    /\ mret = "ok"
    /\ saveResult = "ok"
    /\ pc = "idle"
    /\ last_content = entry.content

\* C11 (Display ordering and purity): the vector a get_history step returns is
\* the stored sequence in reverse, newest first, and the step leaves the file,
\* the clipboard, last_content, the tray count and the events as they were.
C11_DisplayOrder ==
    [][GetHistory =>
          /\ LET st == load_history(disk)
                 gh == get_history(disk)
             IN  /\ Len(gh) = Len(st)
                 /\ \A i \in 1..Len(st) : gh[i] = st[Len(st) + 1 - i]
          /\ UNCHANGED <<disk, clipboard, last_content, trayCount, events>>]_vars

\* get_history has returned [b@2, a@101] for the store [a@101, b@2] reversed
C11_Witness ==
    /\ mret = "vec"
    /\ Len(Store) = 2
    /\ Store[1].content # Store[2].content
    /\ get_history(disk) = <<Store[2], Store[1]>>

\* C12 (comparison value is the last recorded text), as claimed: between
\* cycles last_content is unset or the content of the last entry save_entry
\* returned Ok for.
C12_LastIsRecorded ==
    (pc = "idle") => (last_content = None \/ last_content = recorded)

\* the step on which save_entry returns Err to the monitor
SaveReturnsErr == (SaveOpen \/ SaveWrite) /\ faults' # faults

\* C13 (record rewrites atomically), as claimed: when save_entry returns Err
\* and no clear ran during it, the store is the one it loaded at its start.
C13_AtomicRewrite ==
    [][(SaveReturnsErr /\ ~clearedDuring) => load_history(disk') = loaded]_vars

\* C14 (Single writer), as claimed: no clear removes the file between a
\* save_entry's load and its return.
C14_SingleWriter == ~(pc \in {"save_open", "save_write"} /\ clearedDuring)

\* C15 (a clipboard-access failure never stops sampling), as claimed: the
\* monitor thread never ends while the running flag is set.
C15_SamplingContinues == (pc = "exited") => ~running

\* C16 (tray count synchronized), as claimed: whenever the monitor is between
\* cycles (no save_entry or menu rebuild of its own in flight; the main-thread
\* handlers are single steps), the tray count is the number of stored entries.
C16_TrayInSync ==
    (pc \in {"start", "idle", "read", "exited"}) => trayCount = Len(Store)

\* C17 (the empty text is never recorded): no stored entry and no entry being
\* saved has the empty content, and a tick that reads the empty text starts no
\* record and leaves last_content and the file as they were.
C17_EmptyNeverRecorded ==
    [][/\ \A i \in 1..Len(load_history(disk')) :
              load_history(disk')[i].content # EmptyText
       /\ entry'.content # EmptyText
       /\ (MonitorTick /\ clipboard = EmptyText /\ current' = EmptyText)
              => (pc' = "idle" /\ UNCHANGED <<last_content, disk, entry, clock>>)]_vars

\* a tick has read the empty text while last_content was a recorded text
C17_Witness ==
    /\ pc = "idle"
    /\ current = EmptyText
    /\ prevRead = EmptyText
    /\ last_content = recorded
    /\ recorded \in Contents(Store)

\* C18 (a failed store write does not terminate the monitor): when save_entry
\* returns Err the monitor goes on to its sleep and next cycle, the flag stays
\* set, no event is emitted on that step, and no "clipboard-changed" event
\* exists for the entry whose save_entry failed.
C18_WriteFailureTolerated ==
    [][/\ SaveReturnsErr =>
            /\ saveResult' = "err"
            /\ pc' = "idle"
            /\ running'
            /\ events' = events
       /\ (saveResult' = "err") => <<"clipboard-changed", entry'>> \notin events']_vars

\* after a failed save_entry the monitor has polled again
C18_Witness ==
    /\ saveResult = "err"
    /\ pc = "idle"
    /\ reread
    /\ prevRead = entry.content
    /\ <<"clipboard-changed", entry>> \notin events

\* C19 (Cooperative shutdown): the check at the head of a cycle that finds the
\* flag false ends the loop, an ended loop stays ended, a cycle in flight is
\* not cut short by the flag, and the monitor starts at most one record after
\* the flag was cleared.
C19_CooperativeShutdown ==
    [][/\ (MonitorCheck /\ ~running) => pc' = "exited"
       /\ (pc = "exited") => pc' = "exited"
       /\ (pc \in {"read", "save_load", "save_open", "save_write", "emit", "tray"})
              => pc' # "exited"
       /\ afterStop' <= 1]_vars

\* the flag was cleared between the check and the read of a cycle, that cycle
\* recorded, and the next check ended the loop
C19_Witness ==
    /\ ~running
    /\ pc = "exited"
    /\ afterStop = 1
    /\ saveResult = "ok"
    /\ last_content = entry.content

\* a step on which the emit or the menu rebuild failed
NotifyFails == (MonitorEmit \/ MonitorTray) /\ faults' # faults

\* C20 (Notification is best-effort): a failed emit or menu rebuild leaves the
\* file and the Ok of save_entry as they are, and the monitor goes on: to the
\* menu rebuild after the emit, to last_content = current and the sleep after
\* the menu rebuild.
C20_NotificationBestEffort ==
    [][NotifyFails =>
          /\ UNCHANGED <<disk, saveResult, recorded>>
          /\ saveResult = "ok"
          /\ (pc = "emit") => pc' = "tray"
          /\ (pc = "tray") => (pc' = "idle" /\ last_content' = current)]_vars

\* the emit failed, the entry is in the store and the monitor is in its sleep
\* with last_content updated
C20_Witness ==
    /\ pc = "idle"
    /\ saveResult = "ok"
    /\ faults > 0
    /\ <<"clipboard-changed", entry>> \notin events
    /\ last_content = entry.content
    /\ Store # <<>>
    /\ Store[Len(Store)] = entry

====
